---------------------------- MODULE Spec2Model ----------------------------
(***************************************************************************)
(* Model of src/App.tsx: the analysis adapter (cloudAnalyze, mockAnalyze,  *)
(* useAnalysisAdapter), the App screen state and the Practice component    *)
(* (recording timer and the Analyze button).                               *)
(*                                                                         *)
(* Execution is the browser's single-threaded event loop: every action is  *)
(* one event handler or one continuation of an async function, run to its  *)
(* next await, followed by React's re-render (mounting / unmounting of the *)
(* Practice component and its effect cleanup included).                    *)
(*                                                                         *)
(* Not modelled: transcript, delivery and feedback of a response (no       *)
(* operation reads them) and the exit animation of AnimatePresence (a      *)
(* component is taken to unmount in the render that removes it).           *)
(***************************************************************************)
EXTENDS Integers, Sequences, FiniteSets, Bags

(***************************************************************************)
(* Bounds of the model.                                                    *)
(***************************************************************************)
\* Analysis requests in flight at one time, over all Practice instances.
MaxInFlight == 2
\* Largest value the seconds counter is let to reach by ticks.
MaxSeconds == 1
\* Math.random() is drawn from {0/RandDen, ..., (RandDen-1)/RandDen}.
RandDen == 20

(***************************************************************************)
(* Values.                                                                 *)
(***************************************************************************)
\* JS `undefined` for a numeric field, and for a string field.
Undefined == -1
UndefinedStr == "undefined"
\* An optional object: None is null / undefined / absent, Some(x) is x.
None == <<>>
Some(x) == <<x>>

DEFAULT_MODE == "cloud"
Mode == {"mock", "cloud"}
Screen == {"dashboard", "practice", "session"}
BpSide == {"OG", "OO", "CG", "CO"}

\* The initial motion text of Practice and one text the user may type.
DefaultMotion == "This House would ban targeted political advertising on social media."
Motions == {DefaultMotion, "THW abolish zoos"}
\* Sides the user selects in the behaviours explored (the initial one first).
SideSamples == {"OG", "CO"}
\* Outcomes of 'sess_' + Math.random().toString(36).slice(2,8).
SessionIds == {"sess_a", "sess_b"}

VARIABLES
    screen,      \* App: the active screen
    sessionId,   \* App: the stored session id
    analysis,    \* App: the stored AnalyzeResponse (None is null)
    mode,        \* App: mode of the adapter instance of App (the indicator)
    practice,    \* the hook state of Practice (mounted = FALSE: none)
    timers,      \* the live intervals of window: records [id, live]
    inflight,    \* the analyze calls not yet resolved: a bag of calls
    lastDone     \* history: the analyze call that resolved last (None: none)

vars == <<screen, sessionId, analysis, mode, practice, timers, inflight,
          lastDone>>

(***************************************************************************)
(* mockAnalyze                                                             *)
(***************************************************************************)
\* Variant of randomInt that rounds to the nearest integer (Math.round).
randomIntRounded(u, n) == (2 * u * n + RandDen) \div (2 * RandDen)

\* Math.floor(Math.random() * n), Math.random() being u / RandDen.
randomInt(u, n) == (u * n) \div RandDen

\* Variant of timingStatus whose upper comparison includes 435.
timingStatusInclusive(durationSec) ==
    IF durationSec < 390 THEN "undertime"
    ELSE IF durationSec >= 435 THEN "overtime"
    ELSE "ok"

timingStatus(durationSec) ==
    IF durationSec < 390 THEN "undertime"
    ELSE IF durationSec > 435 THEN "overtime"
    ELSE "ok"

\* The response mockAnalyze resolves with; u1, u2, u3 are the random draws of
\* matter, manner and method.
mockAnalyze(req, u1, u2, u3) ==
    LET matter == 24 + randomInt(u1, 10)
        manner == 22 + randomInt(u2, 10)
        method == 12 + randomInt(u3, 8)
        total  == matter + manner + method
    IN  [ status    |-> "scored",
          sessionId |-> req.sessionId,
          scores    |-> Some([matter |-> matter, manner |-> manner,
                              method |-> method, total |-> total]),
          timing    |-> timingStatus(req.durationSec),
          matter |-> Undefined, manner |-> Undefined,
          method |-> Undefined, total |-> Undefined ]

(***************************************************************************)
(* cloudAnalyze                                                            *)
(***************************************************************************)
\* Variant of normalize that computes total from the three parts.
normalizeRederived(data) ==
    IF data.scores = None /\ data.matter # Undefined
    THEN [data EXCEPT !.scores = Some([matter |-> data.matter,
                                       manner |-> data.manner,
                                       method |-> data.method,
                                       total  |-> data.matter + data.manner
                                                      + data.method])]
    ELSE data

\* Lines 84-86: the scores object is synthesized from the top-level fields.
normalize(data) ==
    IF data.scores = None /\ data.matter # Undefined
    THEN [data EXCEPT !.scores = Some([matter |-> data.matter,
                                       manner |-> data.manner,
                                       method |-> data.method,
                                       total  |-> data.total])]
    ELSE data

\* A decoded body: the fields of the JSON object cloudAnalyze reads or returns.
body(status, sid, scores, matter, manner, method, total) ==
    [ status |-> status, sessionId |-> sid, scores |-> scores,
      timing |-> IF status = UndefinedStr THEN UndefinedStr ELSE "ok",
      matter |-> matter, manner |-> manner, method |-> method, total |-> total ]

score(matter, manner, method, total) ==
    [matter |-> matter, manner |-> manner, method |-> method, total |-> total]

\* Bodies the webhook answers with in the behaviours of Spec: a scored body
\* (in the flattened shape) and the empty object {}.  SpecFn takes Bodies.
BodySamples ==
    { body("scored", "sess_b", None, 10, 5, 3, 18),
      body(UndefinedStr, UndefinedStr, None,
           Undefined, Undefined, Undefined, Undefined) }

\* Bodies of SpecFn: every combination of present and absent fields.
Bodies ==
    { body(st, sid, sc, ma, mn, me, to) :
        st \in {"scored", UndefinedStr}, sid \in {"sess_a", UndefinedStr},
        sc \in {None, Some(score(30, 25, 15, 70)), Some(score(30, 25, 15, 99))},
        ma \in {Undefined, 10}, mn \in {Undefined, 5}, me \in {Undefined, 3},
        to \in {Undefined, 18, 99} }

\* How the remote call of cloudAnalyze ends: the fetch of line 70 rejects
\* ("network_error"), it resolves with r.ok false ("not_ok"), r.json() rejects
\* ("undecodable"), or r.json() resolves with data: None for the JSON null,
\* Some(b) for an object b.
remoteOutcomes(bodies) ==
    { [kind |-> k, data |-> None] :
        k \in {"network_error", "not_ok", "undecodable", "json"} }
        \cup { [kind |-> "json", data |-> Some(b)] : b \in bodies }

\* cloudAnalyze throws: the fetch or r.json() rejected, line 82 threw, or
\* reading data.scores of null at line 84 threw a TypeError.
cloudThrows(o) == o.kind # "json" \/ o.data = None

(***************************************************************************)
(* App: screens, and the mounting of Practice                              *)
(***************************************************************************)
\* The hook state of Practice at mount (lines 208-215); mounted = FALSE is
\* "no Practice is mounted".  hasRun records that start has run in the
\* instance.
\*
\* A Practice instance, once unmounted, is never mounted again: a later visit
\* of the screen mounts a new instance.  A call in flight and a live interval
\* therefore carry `live`: the instance that made them is the mounted one.
Unmounted ==
    [ mounted |-> FALSE, mode |-> DEFAULT_MODE, motionTxt |-> DefaultMotion,
      side |-> "OG", isRecording |-> FALSE, seconds |-> 0, timerRef |-> 0,
      loading |-> FALSE, error |-> "", hasRun |-> FALSE ]

\* The least number in 1.. that is not in used.
least(used) == CHOOSE n \in 1..(Cardinality(used) + 1) :
                   n \notin used /\ \A k \in 1..(n - 1) : k \in used

\* The handle window.setInterval returns: one that is not live.
freshTimer == least({t.id : t \in timers})

\* The calls of the bag B and the intervals ts once the mounted instance has
\* unmounted: none of them is of the mounted instance any more.
orphanedCalls(B) ==
    LET dead(c) == [c EXCEPT !.live = FALSE]
        alive(c) == [c EXCEPT !.live = TRUE]
        n(c) == IF BagIn(c, B) THEN B[c] ELSE 0
    IN  [ d \in { dead(c) : c \in BagToSet(B) } |-> n(d) + n(alive(d)) ]

orphanedTimers(ts) == { [t EXCEPT !.live = FALSE] : t \in ts }

\* Variant of clearInterval that leaves the interval live.
clearIntervalDropped(ts, id) == ts

\* window.clearInterval(id)
clearInterval(ts, id) == { t \in ts : t.id # id }

\* The effect cleanup of line 219, run when Practice unmounts.
cleanup(p, ts) == IF p.timerRef # 0 THEN clearInterval(ts, p.timerRef) ELSE ts

\* The render that follows setScreen(s): Practice mounts when s is practice
\* and unmounts (running its cleanup) when the screen leaves practice.
unmounts(s) == s # "practice" /\ screen = "practice"

practiceAfter(s) ==
    IF s = "practice"
    THEN IF screen = "practice" THEN practice
         ELSE [Unmounted EXCEPT !.mounted = TRUE]
    ELSE Unmounted

timersAfter(s) ==
    IF unmounts(s) THEN orphanedTimers(cleanup(practice, timers)) ELSE timers

callsAfter(s, B) == IF unmounts(s) THEN orphanedCalls(B) ELSE B

setScreen(s) ==
    /\ screen' = s
    /\ practice' = practiceAfter(s)
    /\ timers' = timersAfter(s)
    /\ inflight' = callsAfter(s, inflight)

\* Line 159: the Start Practice button of Dashboard.
onStart ==
    /\ screen = "dashboard"
    /\ setScreen("practice")
    /\ UNCHANGED <<sessionId, analysis, mode, lastDone>>

\* Lines 144-146: a header tab.
onTabClick(s) ==
    /\ setScreen(s)
    /\ UNCHANGED <<sessionId, analysis, mode, lastDone>>

\* Line 149: the Toggle button; setMode of the adapter instance of App.
onToggle ==
    /\ mode' = IF mode = "cloud" THEN "mock" ELSE "cloud"
    /\ UNCHANGED <<screen, sessionId, analysis, practice, timers, inflight,
                   lastDone>>

(***************************************************************************)
(* Practice: inputs and the recording timer                                *)
(***************************************************************************)
setMotionTxt(m) ==
    /\ practice.mounted
    /\ practice' = [practice EXCEPT !.motionTxt = m]
    /\ UNCHANGED <<screen, sessionId, analysis, mode, timers, inflight,
                   lastDone>>

setSide(sd) ==
    /\ practice.mounted
    /\ practice' = [practice EXCEPT !.side = sd]
    /\ UNCHANGED <<screen, sessionId, analysis, mode, timers, inflight,
                   lastDone>>

\* Line 217, behind the Record button (disabled while isRecording).
start ==
    /\ practice.mounted
    /\ ~practice.isRecording
    /\ practice' = [practice EXCEPT !.isRecording = TRUE, !.seconds = 0,
                                    !.timerRef = freshTimer, !.hasRun = TRUE]
    /\ timers' = timers \cup {[id |-> freshTimer, live |-> TRUE]}
    /\ UNCHANGED <<screen, sessionId, analysis, mode, inflight, lastDone>>

\* Line 218, behind the Stop button (disabled unless isRecording).
stop ==
    /\ practice.mounted
    /\ practice.isRecording
    /\ timers' = cleanup(practice, timers)
    /\ practice' = [practice EXCEPT !.isRecording = FALSE, !.timerRef = 0]
    /\ UNCHANGED <<screen, sessionId, analysis, mode, inflight, lastDone>>

\* The callback of a live interval: setSeconds(s => s+1) on the instance that
\* made it; React drops the update when that instance is no longer mounted.
tick(t) ==
    /\ t \in timers
    /\ IF t.live
       THEN /\ practice.seconds < MaxSeconds
            /\ practice' = [practice EXCEPT !.seconds = @ + 1]
       ELSE UNCHANGED practice
    /\ UNCHANGED <<screen, sessionId, analysis, mode, timers, inflight,
                   lastDone>>

(***************************************************************************)
(* Practice: the Analyze button, and the analyze call of the adapter       *)
(* instance of Practice (line 208)                                         *)
(***************************************************************************)
\* Variant of durationSec without the fallback.
durationSecRaw(seconds) == seconds

\* Line 225: durationSec: seconds || 420
durationSec(seconds) == IF seconds # 0 THEN seconds ELSE 420

\* Variant of canAnalyze for a button that is never disabled.
canAnalyzeAlways == practice.mounted

\* Line 252: disabled={loading}
canAnalyze == practice.mounted /\ ~practice.loading

\* Lines 94-95: the analyzer `analyze` calls first in mode m.
firstPhase(m) == IF m = "cloud" THEN "cloud" ELSE "mock"

\* Variant of onAnalyzed that stores the sessionId the response carries.
onAnalyzedEchoed(sid, resp) ==
    [sessionId |-> resp.sessionId, analysis |-> Some(resp), screen |-> "session"]

\* Line 164: the state of App after onAnalyzed(sid, resp).
onAnalyzed(sid, resp) ==
    [sessionId |-> sid, analysis |-> Some(resp), screen |-> "session"]

\* Lines 221-226, to the first await: the request is built and analyze(req)
\* starts; in cloud mode the fetch of cloudAnalyze is issued.
onAnalyzeClick(sid) ==
    /\ canAnalyze
    /\ BagCardinality(inflight) < MaxInFlight
    /\ LET req == [ sessionId   |-> sid,
                    motion      |-> practice.motionTxt,
                    side        |-> practice.side,
                    durationSec |-> durationSec(practice.seconds) ]
       IN inflight' = inflight (+) SetToBag({
              [ live        |-> TRUE,
                sid         |-> sid,
                req         |-> req,
                phase       |-> firstPhase(practice.mode),
                remoteCalls |-> IF practice.mode = "cloud" THEN 1 ELSE 0 ]})
    /\ practice' = [practice EXCEPT !.loading = TRUE, !.error = ""]
    /\ UNCHANGED <<screen, sessionId, analysis, mode, timers, lastDone>>

\* Lines 226-229 once analyze(req) of the call c has resolved with resp:
\* onAnalyzed, then setLoading(false) on the instance that made the call
\* (dropped by React when that instance is no longer mounted).
\* by is the analyzer that produced resp, data the body cloudAnalyze decoded.
complete(c, resp, by, data) ==
    LET app == onAnalyzed(c.sid, resp)
        p   == practiceAfter(app.screen)
    IN  /\ sessionId' = app.sessionId
        /\ analysis' = app.analysis
        /\ screen' = app.screen
        /\ practice' = IF p.mounted /\ c.live
                       THEN [p EXCEPT !.loading = FALSE] ELSE p
        /\ timers' = timersAfter(app.screen)
        /\ inflight' = callsAfter(app.screen, inflight (-) SetToBag({c}))
        /\ lastDone' = Some([ sid |-> c.sid, req |-> c.req,
                              remoteCalls |-> c.remoteCalls, by |-> by,
                              data |-> data, resp |-> resp ])
        /\ UNCHANGED mode

\* Lines 70-87 and 96-98: the remote call of the call c ends with outcome o.
\* The two awaits of cloudAnalyze (fetch, r.json()) are one step: no other
\* handler reads or writes what lies between them.  When cloudAnalyze
\* throws, the catch of analyze starts mockAnalyze.
cloudSettled(c, o) ==
    /\ BagIn(c, inflight)
    /\ c.phase = "cloud"
    /\ IF cloudThrows(o)
       THEN /\ inflight' = (inflight (-) SetToBag({c}))
                               (+) SetToBag({[c EXCEPT !.phase = "mock"]})
            /\ UNCHANGED <<screen, sessionId, analysis, mode, practice,
                           timers, lastDone>>
       ELSE complete(c, normalize(o.data[1]), "cloud", o.data)

\* Lines 34-66: the delay of mockAnalyze for the call c is over.
mockSettled(c, u1, u2, u3) ==
    /\ BagIn(c, inflight)
    /\ c.phase = "mock"
    /\ complete(c, mockAnalyze(c.req, u1, u2, u3), "mock", None)

(***************************************************************************)
(* Specifications                                                          *)
(***************************************************************************)
Init ==
    /\ screen = "dashboard"
    /\ sessionId = ""
    /\ analysis = None
    /\ mode = DEFAULT_MODE
    /\ practice = Unmounted
    /\ timers = {}
    /\ inflight = EmptyBag
    /\ lastDone = None

\* The random draw taken in the behaviours of Spec: the greatest value of
\* Math.random().  SpecFn takes every draw.
RandSamples == {RandDen - 1}

\* Spec: every handler, in every order.  The motion text and the side are
\* payload of the request and nothing reads them; they keep their initial
\* values here and vary in SpecPractice.
Next ==
    \/ onStart
    \/ \E s \in Screen : onTabClick(s)
    \/ onToggle
    \/ setMotionTxt(DefaultMotion)
    \/ setSide("OG")
    \/ start
    \/ stop
    \/ \E t \in timers : tick(t)
    \/ \E sid \in SessionIds : onAnalyzeClick(sid)
    \/ \E c \in BagToSet(inflight) :
           \E o \in remoteOutcomes(BodySamples) : cloudSettled(c, o)
    \/ \E c \in BagToSet(inflight) :
           \E u \in RandSamples : mockSettled(c, u, u, u)

Spec == Init /\ [][Next]_vars

\* SpecPractice: the Practice screen with the motion text and the side varied.
\* The calls made stay in flight: what a call resolves with is Spec's matter.
NextPractice ==
    \/ onStart
    \/ \E s \in Screen : onTabClick(s)
    \/ \E m \in Motions : setMotionTxt(m)
    \/ \E sd \in SideSamples : setSide(sd)
    \/ start
    \/ stop
    \/ \E t \in timers : tick(t)
    \/ onAnalyzeClick("sess_a")

SpecPractice == Init /\ [][NextPractice]_vars

\* SpecFn: mockAnalyze and cloudAnalyze as functions of their inputs.  One
\* call is in flight, made by a Practice whose timer was stopped at d seconds;
\* d, the body the webhook answers with and the random draws range over
\* DurationSamples, Bodies and 0..RandDen-1.
DurationSamples == {100, 500} \cup (386..439)

InitFn ==
    \E d \in DurationSamples, ph \in {"cloud", "mock"} :
        /\ screen = "practice"
        /\ sessionId = ""
        /\ analysis = None
        /\ mode = DEFAULT_MODE
        /\ practice = [Unmounted EXCEPT !.mounted = TRUE, !.seconds = d,
                                        !.hasRun = TRUE, !.loading = TRUE]
        /\ timers = {}
        /\ inflight = SetToBag({ [ live |-> TRUE, sid |-> "sess_a",
                                    req |-> [ sessionId |-> "sess_a",
                                              motion |-> DefaultMotion,
                                              side |-> "OG",
                                              durationSec |-> durationSec(d) ],
                                    phase |-> ph, remoteCalls |-> 1 ] })
        /\ lastDone = None

NextFn ==
    \/ \E c \in BagToSet(inflight) :
           \E o \in remoteOutcomes(Bodies) : cloudSettled(c, o)
    \/ \E c \in BagToSet(inflight) :
           \E u1, u2, u3 \in 0..(RandDen - 1) : mockSettled(c, u1, u2, u3)

SpecFn == InitFn /\ [][NextFn]_vars

(***************************************************************************)
(* Properties                                                              *)
(***************************************************************************)
\* The calls in flight, and how many of them the mounted instance made.
calls == BagToSet(inflight)
liveCalls == BagCardinality([c \in {x \in calls : x.live} |-> inflight[c]])

\* This step is a submit that makes the call c / the completion of the call c
\* (a completion sets the screen to session, which unmounts Practice).
submits(c) == inflight' = inflight (+) SetToBag({c})
completes(c) ==
    /\ BagIn(c, inflight)
    /\ BagCardinality(inflight') = BagCardinality(inflight) - 1
    /\ inflight' = callsAfter("session", inflight (-) SetToBag({c}))

\* The type AnalyzeResponse (lines 18-31), as far as the model carries it.
WellFormed(resp) ==
    /\ resp.status \in {"scored", "failed", "queued"}
    /\ resp.sessionId # UndefinedStr
    /\ resp.timing \in {"ok", "undertime", "overtime"}
    /\ resp.scores # None
    /\ \A f \in {"matter", "manner", "method", "total"} :
           resp.scores[1][f] # Undefined

\* A valid scored response to req.
ValidScored(resp, req) ==
    /\ WellFormed(resp)
    /\ resp.status = "scored"
    /\ resp.sessionId = req.sessionId
    /\ resp.scores[1].total =
           resp.scores[1].matter + resp.scores[1].manner + resp.scores[1].method

\* The remote analyzer failed for the call d: cloudAnalyze threw (so that the
\* result is mockAnalyze's), or the body it decoded is not an AnalyzeResponse
\* in either of the two shapes.
RemoteFailed(d) ==
    \/ d.by = "mock" /\ d.remoteCalls > 0
    \/ d.data # None /\ ~WellFormed(normalize(d.data[1]))

\* C1: whenever the remote analyzer fails in any way (network error,
\* non-success status, undecodable or malformed body), analyze has made
\* exactly one remote attempt and resolves with the simulated analyzer's
\* result for the same request: a valid scored response with the request's
\* sessionId.
C1_FallbackOnEveryRemoteFailure ==
    lastDone # None =>
        LET d == lastDone[1]
        IN  RemoteFailed(d) =>
                /\ d.remoteCalls = 1
                /\ d.by = "mock"
                /\ ValidScored(d.resp, d.req)

\* C2: a submit triggered while the mode indicator of App shows simulated
\* makes an analyze call that issues no remote call.
C2_SimulatedIndicatorMeansNoRemoteCall ==
    [][ \A c \in BagToSet(inflight') :
            (submits(c) /\ mode = "mock") => c.remoteCalls = 0 ]_vars

\* C3: when the response of a call arrives whose Practice instance is no
\* longer mounted (the user navigated away while it was in flight; no call of
\* a mounted instance is in flight), the active screen and the stored session
\* (sessionId, analysis) are left unchanged.
C3_LateResponseNotObserved ==
    [][ \A c \in calls :
            (~c.live /\ liveCalls = 0 /\ completes(c))
            => ( /\ screen' = screen
                 /\ sessionId' = sessionId
                 /\ analysis' = analysis ) ]_vars

\* C4: each Practice instance has at most one analysis call in flight: the
\* mounted instance never has more than one, it has submission disabled
\* (loading) exactly while it has one, and a submit happens only when it has
\* none.  (An instance that is no longer mounted makes no call.)
C4_OneCallInFlightPerInstance ==
    /\ [] ( /\ liveCalls <= 1
            /\ practice.mounted => (practice.loading <=> liveCalls = 1)
            /\ ~practice.mounted => liveCalls = 0
            /\ practice.loading => ~canAnalyze )
    /\ [][ \A c \in BagToSet(inflight') : submits(c) =>
             /\ c.live
             /\ practice.mounted
             /\ liveCalls = 0 ]_vars

\* C4 witness: two calls in flight, one of them of the mounted instance,
\* whose timer has ticked while it is in flight.
C4_Witness ==
    /\ BagCardinality(inflight) = 2
    /\ practice.loading
    /\ practice.isRecording
    /\ practice.seconds > 0

\* C5: the screen starts as dashboard; Start Practice on dashboard yields
\* practice; every completion of a call moves to session and stores the
\* sessionId generated for that call together with its response; so the stored
\* sessionId and the stored analysis are always those of one and the same call,
\* the one that completed last.
C5_SessionCarriesTheCallsSessionId ==
    /\ screen = "dashboard"
    /\ [][ onStart => screen' = "practice" ]_vars
    /\ [][ \A c \in calls : completes(c) =>
             /\ screen' = "session"
             /\ lastDone' # None
             /\ lastDone'[1].sid = c.sid
             /\ lastDone'[1].req = c.req
             /\ sessionId' = c.sid
             /\ analysis' = Some(lastDone'[1].resp) ]_vars
    /\ [][ (sessionId' # sessionId \/ analysis' # analysis)
             => \E c \in calls : completes(c) ]_vars
    /\ [] ( analysis # None =>
              /\ lastDone # None
              /\ sessionId = lastDone[1].sid
              /\ analysis = Some(lastDone[1].resp) )

\* C5 witness: Session holds the analysis of a call that the webhook answered,
\* while a call with another sessionId is still in flight.
C5_Witness ==
    /\ screen = "session"
    /\ analysis # None
    /\ lastDone # None
    /\ lastDone[1].by = "cloud"
    /\ \E c \in calls : c.sid # sessionId

\* C9: the timers of the recording stopwatch.
TimerInv ==
    /\ Cardinality(timers) <= 1
    /\ \A t \in timers : /\ t.live
                         /\ practice.mounted
                         /\ practice.isRecording
                         /\ practice.timerRef = t.id
    /\ practice.isRecording => timers # {}
    /\ practice.isRecording => ~ENABLED start

\* C9: Record sets the counter to zero and starts counting; the counter of an
\* instance changes only by one tick at a time while recording is active (or
\* by Record); Stop leaves the counter at its value and no interval is live
\* after it; no interval is live once Practice is unmounted; at most one
\* interval is live at any time, and Record is unavailable while recording.
C9_RecordingTimerIsAStopwatch ==
    /\ []TimerInv
    /\ [][ start => /\ practice'.seconds = 0
                    /\ practice'.isRecording
                    /\ timers' # {} ]_vars
    /\ [][ stop => /\ practice'.seconds = practice.seconds
                   /\ ~practice'.isRecording
                   /\ timers' = {} ]_vars
    /\ [][ ( /\ practice.mounted
             /\ practice'.mounted
             /\ practice'.seconds # practice.seconds )
           => IF practice.isRecording
              THEN practice'.seconds = practice.seconds + 1
              ELSE practice'.isRecording /\ practice'.seconds = 0 ]_vars
    /\ [][ ~practice'.mounted => timers' = {} ]_vars

\* C9 witness: a recording was stopped after the counter had counted.
C9_Witness ==
    /\ practice.mounted
    /\ ~practice.isRecording
    /\ practice.seconds = MaxSeconds
    /\ timers = {}

\* C6: the timing status of a response of the simulated analyzer is undertime
\* below 390, overtime above 435 and ok otherwise; 390, 435 and 420 give ok,
\* 100 gives undertime, 500 gives overtime.
C6_TimingStatusOfDuration ==
    (lastDone # None /\ lastDone[1].by = "mock") =>
        LET d == lastDone[1].req.durationSec
            t == lastDone[1].resp.timing
        IN  /\ d < 390 => t = "undertime"
            /\ d > 435 => t = "overtime"
            /\ (390 <= d /\ d <= 435) => t = "ok"
            /\ d \in {390, 420, 435} => t = "ok"
            /\ d = 100 => t = "undertime"
            /\ d = 500 => t = "overtime"

\* C6 witness: the simulated analyzer answered a request of 435 seconds.
C6_Witness ==
    /\ lastDone # None
    /\ lastDone[1].by = "mock"
    /\ lastDone[1].req.durationSec = 435
    /\ lastDone[1].resp.timing = "ok"

\* C7: every response of the simulated analyzer has matter in 24..33, manner
\* in 22..31, method in 12..19 and total = matter + manner + method.
C7_MockScoresInRange ==
    (lastDone # None /\ lastDone[1].by = "mock") =>
        LET sc == lastDone[1].resp.scores[1]
        IN  /\ sc.matter \in 24..33
            /\ sc.manner \in 22..31
            /\ sc.method \in 12..19
            /\ sc.total = sc.matter + sc.manner + sc.method

\* C7 witness: a response at the ends of the three ranges.
C7_Witness ==
    /\ lastDone # None
    /\ lastDone[1].by = "mock"
    /\ lastDone[1].resp.scores = Some(score(33, 22, 19, 74))

\* C8: when cloudAnalyze returns a body, a body without scores object that
\* carries top-level matter, manner, method and total is returned with scores
\* equal to exactly those four values, and a body with a scores object is
\* returned unchanged; total is never re-derived.
C8_NormalizeKeepsTheFourValues ==
    (lastDone # None /\ lastDone[1].by = "cloud") =>
        LET b   == lastDone[1].data[1]
            out == lastDone[1].resp
        IN  /\ ( /\ b.scores = None
                 /\ b.matter # Undefined /\ b.manner # Undefined
                 /\ b.method # Undefined /\ b.total # Undefined )
               => out.scores = Some(score(b.matter, b.manner, b.method, b.total))
            /\ b.scores # None => out = b
            /\ (b = body("scored", "sess_a", None, 10, 5, 3, 18))
               => out.scores = Some(score(10, 5, 3, 18))

\* C8 witness: the flattened body whose total is not the sum of its parts.
C8_Witness ==
    /\ lastDone # None
    /\ lastDone[1].by = "cloud"
    /\ lastDone[1].data = Some(body("scored", "sess_a", None, 10, 5, 3, 99))
    /\ lastDone[1].resp.scores = Some(score(10, 5, 3, 99))

\* C10 as stated: the request carries the current motion text, the selected
\* side, and a durationSec equal to the elapsed timer value whenever the timer
\* has run in this Practice instance, 420 when it never ran.
C10_DurationIsElapsedWheneverTimerRan ==
    [][ \A c \in BagToSet(inflight') : submits(c) =>
          LET q == c.req
          IN  /\ q.motion = practice.motionTxt
              /\ q.side = practice.side
              /\ q.durationSec =
                     IF practice.hasRun THEN practice.seconds ELSE 420 ]_vars

\* C10 amended: the request carries the current motion text, the selected
\* side, and a durationSec equal to the elapsed timer value whenever that value
\* is not zero; durationSec is 420 whenever it is zero, which is the case when
\* the timer never ran and also when Record was pressed less than one tick ago.
C10_DurationIsElapsedUnlessZero ==
    [][ \A c \in BagToSet(inflight') : submits(c) =>
          LET q == c.req
          IN  /\ q.motion = practice.motionTxt
              /\ q.side = practice.side
              /\ practice.seconds > 0 => q.durationSec = practice.seconds
              /\ practice.seconds = 0 => q.durationSec = 420
              /\ ~practice.hasRun => q.durationSec = 420 ]_vars

\* C10 witness: a request built from a typed motion, a selected side and a
\* counted second, and another built by an instance whose timer never ran.
C10_Witness ==
    /\ \E c \in calls : /\ c.req.durationSec = MaxSeconds
                        /\ c.req.motion # DefaultMotion
                        /\ c.req.side # "OG"
    /\ \E c \in calls : c.live /\ c.req.durationSec = 420
    /\ ~practice.hasRun
=============================================================================
